---- MODULE Spec2Model ----
(***************************************************************************)
(* Metric resolution and evaluation engine of svr-info (pmu2metrics):      *)
(* loadMetricBestGroups, getExpressionVariables, getEvaluatorFunctions,    *)
(* evaluateExpression and processEvents, called frame after frame on one   *)
(* long-lived slice of metric definitions.                                 *)
(*                                                                         *)
(* Go values are modelled as follows.                                      *)
(*   float64      a pair <<n, d>>: n/d in lowest terms with d > 0 for a    *)
(*                finite non-zero value, <<0, 1>> and <<0, -1>> for +0 and *)
(*                -0, <<1, 0>> and <<-1, 0>> for +Inf and -Inf, <<0, 0>>   *)
(*                for NaN (IEEE 754 division, multiplication, comparison). *)
(*   map          a function; a lookup of a missing key gives the zero     *)
(*                value, as in Go.                                         *)
(*   slice        a sequence; Go index i is TLA+ index i + 1; an index out *)
(*                of range is a run-time panic.                            *)
(*   panic        not recovered outside evaluateExpression: the process    *)
(*                ends (pc = "panicked").                                  *)
(***************************************************************************)
EXTENDS Integers, Sequences, FiniteSets, TLC

\* ------------------------------------------------------------------ bounds
MaxGroups == 2
MaxValue == 1
MaxTime == 1
MaxThreadsPerCore == 2
MaxCompiles == 2
MaxArg == 7
MaxDenominator == 2
MaxTargets == 3

\* ------------------------------------------------------- program constants
Unresolved == -1
Failed == -2
C6Residency == "cstate_core/c6-residency/"

EventNames == {"instr", C6Residency}

\* ---------------------------------------------------------------- float64
RECURSIVE GCD(_, _)
GCD(a, b) == IF b = 0 THEN a ELSE GCD(b, a % b)

Abs(x) == IF x < 0 THEN -x ELSE x

NaN == <<0, 0>>
PosInf == <<1, 0>>
NegInf == <<-1, 0>>
PosZero == <<0, 1>>
NegZero == <<0, -1>>

IsNaN(x) == x = NaN
IsInf(x) == x[2] = 0 /\ x[1] # 0
IsZero(x) == x[1] = 0 /\ x[2] # 0
IsFinite(x) == x[2] # 0

\* sign bit of a float64 that is not NaN: 1 or -1
FSign(x) == IF x[1] # 0 THEN (IF x[1] < 0 THEN -1 ELSE 1) ELSE x[2]

SignedZero(s) == IF s < 0 THEN NegZero ELSE PosZero
SignedInf(s) == IF s < 0 THEN NegInf ELSE PosInf

\* the finite non-zero float64 n/d (n # 0, d # 0), in lowest terms
Ratio(n, d) ==
    LET g == GCD(Abs(n), Abs(d))
        s == IF (n < 0) = (d < 0) THEN 1 ELSE -1
    IN <<s * (Abs(n) \div g), Abs(d) \div g>>

\* float64(t) for an int t
FromInt(i) == IF i = 0 THEN PosZero ELSE <<i, 1>>

\* a / b on float64
FDiv(a, b) ==
    IF IsNaN(a) \/ IsNaN(b) THEN NaN
    ELSE LET s == FSign(a) * FSign(b) IN
         IF IsInf(a) THEN (IF IsInf(b) THEN NaN ELSE SignedInf(s))
         ELSE IF IsInf(b) THEN SignedZero(s)
         ELSE IF IsZero(b) THEN (IF IsZero(a) THEN NaN ELSE SignedInf(s))
         ELSE IF IsZero(a) THEN SignedZero(s)
         ELSE Ratio(a[1] * b[2], a[2] * b[1])

\* a * b on float64
FMul(a, b) ==
    IF IsNaN(a) \/ IsNaN(b) THEN NaN
    ELSE LET s == FSign(a) * FSign(b) IN
         IF IsInf(a) \/ IsInf(b)
         THEN (IF IsZero(a) \/ IsZero(b) THEN NaN ELSE SignedInf(s))
         ELSE IF IsZero(a) \/ IsZero(b) THEN SignedZero(s)
         ELSE Ratio(a[1] * b[1], a[2] * b[2])

\* a - b on float64 values that are integers (timestamps)
FSubInt(a, b) == FromInt(a[1] - b[1])

\* a < b on float64 (false when either is NaN; -0 = +0)
FLess(a, b) ==
    /\ ~IsNaN(a)
    /\ ~IsNaN(b)
    /\ IF IsInf(a) \/ IsInf(b)
       THEN (a = NegInf /\ b # NegInf) \/ (b = PosInf /\ a # PosInf)
       ELSE a[1] * Abs(b[2]) < b[1] * Abs(a[2])

\* ------------------------------------------------------------- EventFrame
\* EventGroup.EventValues: event name -> raw value
GroupSet ==
    UNION {[names -> {FromInt(v) : v \in 1..MaxValue}] : names \in SUBSET EventNames}

GroupSeqs ==
    UNION {[1..n -> GroupSet] : n \in 0..MaxGroups}

Timestamps == {FromInt(t) : t \in 0..MaxTime}

\* the zero value of EventFrame
ZeroFrame == [Timestamp |-> PosZero, EventGroups |-> <<>>]

\* Go map lookup: the zero value for a missing key
EventValue(group, name) ==
    IF name \in DOMAIN group THEN group[name] ELSE PosZero

\* --------------------------------------------------- loadMetricBestGroups
\* a scan in which a later group with as many matches replaces the best one
betterMatchOrEqual(matches, bestMatches) == matches > 0 /\ matches >= bestMatches

\* a scan that takes a group that is no worse than the best so far
betterMatchNotWorse(matches, bestMatches) == matches >= bestMatches

\* intersection.Cardinality() > bestMatches
betterMatch(matches, bestMatches) == matches > bestMatches

NoBest == [bestGroupIdx |-> -1, bestMatches |-> 0, matchedNames |-> {}]

\* the scan "for groupIdx, group := range frame.EventGroups" of one round,
\* from Go index groupIdx on, with the best group found so far
RECURSIVE scanGroups(_, _, _, _)
scanGroups(groups, remaining, groupIdx, best) ==
    IF groupIdx >= Len(groups) THEN best
    ELSE LET intersection == remaining \cap DOMAIN groups[groupIdx + 1] IN
         IF betterMatch(Cardinality(intersection), best.bestMatches)
         THEN LET found == [bestGroupIdx |-> groupIdx,
                            bestMatches |-> Cardinality(intersection),
                            matchedNames |-> intersection]
              IN IF found.bestMatches = Cardinality(remaining)
                 THEN found
                 ELSE scanGroups(groups, remaining, groupIdx + 1, found)
         ELSE scanGroups(groups, remaining, groupIdx + 1, best)

\* a failing round that marks every variable of the metric
markAllFailed(variables, remaining) == [v \in DOMAIN variables |-> Failed]

\* "metric.Variables[variableName] = -2" for the remaining names
markFailed(variables, remaining) ==
    [v \in DOMAIN variables |-> IF v \in remaining THEN Failed ELSE variables[v]]

\* "metric.Variables[name] = bestGroupIdx" for the matched names
assignGroup(variables, matchedNames, bestGroupIdx) ==
    [v \in DOMAIN variables |->
        IF v \in matchedNames THEN bestGroupIdx ELSE variables[v]]

\* the rounds of the "for { ... }" loop; rounds counts the scans made
RECURSIVE resolveRounds(_, _, _, _)
resolveRounds(variables, remaining, groups, rounds) ==
    IF remaining = {}
    THEN [Variables |-> variables, err |-> FALSE, rounds |-> rounds]
    ELSE LET best == scanGroups(groups, remaining, 0, NoBest) IN
         IF best.bestGroupIdx = -1
         THEN [Variables |-> markFailed(variables, remaining),
               err |-> TRUE, rounds |-> rounds + 1]
         ELSE resolveRounds(
                  assignGroup(variables, best.matchedNames, best.bestGroupIdx),
                  remaining \ best.matchedNames, groups, rounds + 1)

\* a resolver that leaves the names it could not match at -1
loadMetricBestGroupsUnmarked(metric, frame) ==
    LET loaded == resolveRounds(metric.Variables, DOMAIN metric.Variables,
                                frame.EventGroups, 0)
    IN [loaded EXCEPT !.Variables =
           [v \in DOMAIN loaded.Variables |->
               IF loaded.Variables[v] = Failed THEN Unresolved
               ELSE loaded.Variables[v]]]

\* allVariableNames is every key of metric.Variables, whatever its state
loadMetricBestGroups(metric, frame) ==
    resolveRounds(metric.Variables, DOMAIN metric.Variables, frame.EventGroups, 0)

\* ------------------------------------------------- getExpressionVariables
\* a first loop that tries again after a failure
groupAssignmentRetry(Variables) ==
    IF \E v \in DOMAIN Variables : Variables[v] < 0 THEN "load" ELSE "cached"

\* a first loop that resolves on every frame
groupAssignmentEveryFrame(Variables) ==
    IF \E v \in DOMAIN Variables : Variables[v] = Failed THEN "failed" ELSE "load"

\* the first loop: "failed" when some variable is -2 (return with an error),
\* else "load" when some variable is -1, else "cached"
groupAssignment(Variables) ==
    IF \E v \in DOMAIN Variables : Variables[v] = Failed THEN "failed"
    ELSE IF \E v \in DOMAIN Variables : Variables[v] = Unresolved THEN "load"
    ELSE "cached"

\* log lines, by the statement that prints them
LogPreviouslyFailed == "metric variable group assignment previously failed, skipping"
LogCompileError == "NewEvaluableExpressionWithFunctions error"
LogEvaluateError == "Evaluate error"
LogMetric == "name : expression : variables"

\* a -2 block whose return is inside "if gVerbose"
failedVariableVerboseReturn(Variables, verbose) ==
    [return |-> verbose /\ \E v \in DOMAIN Variables : Variables[v] = Failed,
     log |-> IF verbose /\ \E v \in DOMAIN Variables : Variables[v] = Failed
             THEN <<LogPreviouslyFailed>> ELSE <<>>]

\* the block of a variable that is -2: the error is printed when gVerbose,
\* and the function returns either way
failedVariable(Variables, verbose) ==
    [return |-> \E v \in DOMAIN Variables : Variables[v] = Failed,
     log |-> IF verbose /\ \E v \in DOMAIN Variables : Variables[v] = Failed
             THEN <<LogPreviouslyFailed>> ELSE <<>>]

\* an adjustment that does not look at the variable name
adjustEveryValue(variableName, value, metadata) ==
    IF metadata.ThreadsPerCore > 1
    THEN FMul(value, FromInt(metadata.ThreadsPerCore))
    ELSE value

\* the hyperthreading adjustment of one normalized value
adjustValue(variableName, value, metadata) ==
    IF metadata.ThreadsPerCore > 1 /\ variableName = C6Residency
    THEN FMul(value, FromInt(metadata.ThreadsPerCore))
    ELSE value

\* the value bound to one variable whose group index is in range
normalizedValue(variableName, groupIdx, frame, previousTimestamp, metadata) ==
    adjustValue(variableName,
                FDiv(EventValue(frame.EventGroups[groupIdx + 1], variableName),
                     FSubInt(frame.Timestamp, previousTimestamp)),
                metadata)

\* frame.EventGroups[i] panics unless 0 <= i < len(frame.EventGroups)
indexInRange(i, frame) == 0 <= i /\ i < Len(frame.EventGroups)

NoVariables == [v \in {} |-> NaN]

\* Variables is the map shared with the caller's definition: what the
\* resolver wrote stays written whatever is returned.
getExpressionVariables(metric, frame, previousTimestamp, metadata, verbose) ==
    LET assignment == groupAssignment(metric.Variables)
        failed == failedVariable(metric.Variables, verbose)
        loaded == IF assignment = "load"
                  THEN loadMetricBestGroups(metric, frame)
                  ELSE [Variables |-> metric.Variables, err |-> FALSE, rounds |-> 0]
        Variables == loaded.Variables
    IN IF assignment = "failed" /\ failed.return
       THEN [Variables |-> metric.Variables, variables |-> NoVariables,
             err |-> TRUE, panic |-> FALSE, loadGroups |-> FALSE,
             log |-> failed.log]
       ELSE IF loaded.err
       THEN [Variables |-> Variables, variables |-> NoVariables,
             err |-> TRUE, panic |-> FALSE, loadGroups |-> TRUE, log |-> <<>>]
       ELSE IF \E v \in DOMAIN Variables : ~indexInRange(Variables[v], frame)
       THEN [Variables |-> Variables, variables |-> NoVariables,
             err |-> FALSE, panic |-> TRUE, loadGroups |-> assignment = "load",
             log |-> <<>>]
       ELSE [Variables |-> Variables,
             variables |-> [v \in DOMAIN Variables |->
                 normalizedValue(v, Variables[v], frame, previousTimestamp, metadata)],
             err |-> FALSE, panic |-> FALSE, loadGroups |-> assignment = "load",
             log |-> <<>>]

\* -------------------------------------------------- getEvaluatorFunctions
\* a type switch without the int case
numericArgFloatOnly(arg) == IF arg.type = "float64" THEN arg.f ELSE PosZero

\* the numeric argument of max/min: the type switch leaves 0 for a value
\* that is neither int nor float64
numericArg(arg) ==
    IF arg.type = "int" THEN FromInt(arg.i)
    ELSE IF arg.type = "float64" THEN arg.f
    ELSE PosZero

\* Go's built-in max and min on float64
FMax(a, b) ==
    IF IsNaN(a) \/ IsNaN(b) THEN NaN
    ELSE IF FLess(a, b) THEN b
    ELSE IF FLess(b, a) THEN a
    ELSE IF IsZero(a) /\ FSign(a) < 0 THEN b ELSE a

FMin(a, b) ==
    IF IsNaN(a) \/ IsNaN(b) THEN NaN
    ELSE IF FLess(a, b) THEN a
    ELSE IF FLess(b, a) THEN b
    ELSE IF IsZero(a) /\ FSign(a) < 0 THEN a ELSE b

FloatResult(x) == [err |-> FALSE, type |-> "float64", f |-> x, b |-> FALSE]
BoolResult(x) == [err |-> FALSE, type |-> "bool", f |-> NaN, b |-> x]
ErrResult == [err |-> TRUE, type |-> "nil", f |-> NaN, b |-> FALSE]

\* a run-time panic raised while evaluating (its value is an error)
PanicResult == [err |-> TRUE, type |-> "panic", f |-> NaN, b |-> FALSE]

\* an argument of dynamic type int
IntArg(n) == [err |-> FALSE, type |-> "int", f |-> NaN, b |-> FALSE, i |-> n]

\* the names registered by getEvaluatorFunctions
getEvaluatorFunctions == {"max", "min"}

\* functions[name](args...): args[0] or args[1] out of range is a run-time
\* panic, whose value is an error
callFunction(name, args) ==
    IF Len(args) < 2 THEN PanicResult
    ELSE IF name = "max"
    THEN FloatResult(FMax(numericArg(args[1]), numericArg(args[2])))
    ELSE FloatResult(FMin(numericArg(args[1]), numericArg(args[2])))

\* --------------------------------------------------------------- govaluate
\* Expressions are <<"var", name>>, <<"num", i>>, <<op, left, right>> for op
\* in {"/", ">"} and <<"call", function, <<argument, ...>>>>.
Nil == <<>>

Var(name) == <<"var", name>>

\* the formulas of the metric definitions, by source text
ParseTable ==
    [e \in {"instr", "[cstate_core/c6-residency/] / instr",
            "instr > [cstate_core/c6-residency/]", "instr /",
            "max(instr, [cstate_core/c6-residency/])", "min(instr)"} |->
        CASE e = "instr" ->
               [err |-> FALSE, expr |-> Var("instr")]
          [] e = "[cstate_core/c6-residency/] / instr" ->
               [err |-> FALSE, expr |-> <<"/", Var(C6Residency), Var("instr")>>]
          [] e = "instr > [cstate_core/c6-residency/]" ->
               [err |-> FALSE, expr |-> <<">", Var("instr"), Var(C6Residency)>>]
          [] e = "instr /" ->
               [err |-> TRUE, expr |-> Nil]
          [] e = "max(instr, [cstate_core/c6-residency/])" ->
               [err |-> FALSE,
                expr |-> <<"call", "max", <<Var("instr"), Var(C6Residency)>>>>]
          [] e = "min(instr)" ->
               [err |-> FALSE, expr |-> <<"call", "min", <<Var("instr")>>>>]]

\* the function names a formula calls
RECURSIVE calledFunctions(_)
calledFunctions(expr) ==
    IF expr[1] = "call" THEN {expr[2]}
    ELSE IF expr[1] \in {"/", ">"}
    THEN calledFunctions(expr[2]) \cup calledFunctions(expr[3])
    ELSE {}

\* govaluate.NewEvaluableExpressionWithFunctions: a syntax error or a call of
\* a function that is not registered is an error
NewEvaluableExpressionWithFunctions(expression, functions) ==
    LET parsed == ParseTable[expression] IN
    IF parsed.err THEN parsed
    ELSE IF ~(calledFunctions(parsed.expr) \subseteq functions)
    THEN [err |-> TRUE, expr |-> Nil]
    ELSE parsed

\* EvaluableExpression.Evaluate: operands of "/" and ">" must be numbers, a
\* comparison gives a bool, a name without a parameter is an error
RECURSIVE Evaluate(_, _)
Evaluate(expr, parameters) ==
    CASE expr[1] = "var" ->
           IF expr[2] \in DOMAIN parameters
           THEN FloatResult(parameters[expr[2]])
           ELSE ErrResult
      [] expr[1] = "num" -> FloatResult(FromInt(expr[2]))
      [] expr[1] \in {"/", ">"} ->
           LET l == Evaluate(expr[2], parameters)
               r == Evaluate(expr[3], parameters)
           IN IF l.err THEN l
              ELSE IF r.err THEN r
              ELSE IF l.type # "float64" \/ r.type # "float64" THEN ErrResult
              ELSE IF expr[1] = "/" THEN FloatResult(FDiv(l.f, r.f))
              ELSE BoolResult(FLess(r.f, l.f))
      [] expr[1] = "call" ->
           LET args == [k \in 1..Len(expr[3]) |-> Evaluate(expr[3][k], parameters)]
           IN IF \E k \in 1..Len(args) : args[k].err
              THEN args[CHOOSE k \in 1..Len(args) :
                            args[k].err /\ \A j \in 1..(k - 1) : ~args[j].err]
              ELSE callFunction(expr[2], args)

\* ----------------------------------------------------- evaluateExpression
\* metric is the callee's own copy of the definition: the assignment to
\* metric.EvaluatorExpression is returned as "metric" for the caller to keep
\* or drop. A panic of the evaluator is recovered into err.
evaluateExpression(metric, variables, functions) ==
    LET create == metric.EvaluatorExpression = Nil
        created == IF create
                   THEN NewEvaluableExpressionWithFunctions(metric.Expression, functions)
                   ELSE [err |-> FALSE, expr |-> metric.EvaluatorExpression]
    IN IF created.err
       THEN [metric |-> metric, result |-> ErrResult, err |-> TRUE, created |-> FALSE,
             log |-> <<LogCompileError>>]
       ELSE LET result == Evaluate(created.expr, variables) IN
            [metric |-> [metric EXCEPT !.EvaluatorExpression = created.expr],
             result |-> result, err |-> result.err, created |-> create,
             log |-> IF result.err /\ result # PanicResult
                     THEN <<LogEvaluateError>> ELSE <<>>]

\* ---------------------------------------------------------- processEvents
VARIABLES
    metricDefinitions,  \* the long-lived []MetricDefinition of the run
    metadata,           \* Metadata (ThreadsPerCore)
    pc,                 \* "idle", "returned" (a call has returned), "panicked"
    eventFrame,         \* the last call: what getEventFrame returned
    frameErr,           \* the last call: getEventFrame returned an error
    previousTimestamp,  \* the last call: its previousTimestamp argument
    metrics,            \* the last call: the returned []Metric
    timeStamp,          \* the last call: the returned timeStamp
    err,                \* the last call: the returned err is not nil
    outcome,            \* the last call: what happened to each definition
    loadGroups,         \* the last call: loadMetricBestGroups ran on the definition
    bindings,           \* the last call: the variables map of each definition
    compileCount        \* per definition: formulas compiled so far in the run

\* diagnostics, and what the run has done to each definition so far
VARIABLES
    gVerbose,           \* the diagnostics toggle
    logged,             \* the log lines of the call under way or just returned
    resolverCalls,      \* per definition: calls of loadMetricBestGroups so far
    faulted             \* per definition: its formula has faulted in some call

engineVars ==
    <<metricDefinitions, metadata, pc, eventFrame, frameErr, previousTimestamp,
      metrics, timeStamp, err, outcome, loadGroups, bindings, compileCount,
      gVerbose, logged, resolverCalls, faulted>>

\* one call of a function of getEvaluatorFunctions, on its own
VARIABLES
    fPc,                \* "off", "ready", "done"
    fName,              \* the function called
    fArgs,              \* its arguments
    fResult             \* what it returned

functionVars == <<fPc, fName, fArgs, fResult>>

\* one call of loadMetricBestGroups, on its own, iteration by iteration
VARIABLES
    rPc,                \* "off", "loop" (at the head of the for loop), "done"
    rInitial,           \* metric.Variables when the call began
    rVariables,         \* metric.Variables
    rGroups,            \* frame.EventGroups
    rRemaining,         \* remainingVariableNames
    rIterations,        \* iterations of the for loop begun so far
    rErr                \* the returned err is not nil

resolverVars == <<rPc, rInitial, rVariables, rGroups, rRemaining, rIterations, rErr>>

\* one run of the orchestrator's doWork, or of getCollections on its own
VARIABLES
    wPc,                \* where the main goroutine is
    wCaller,            \* "doWork", or "direct" for getCollections on its own
    wDumpConfig,        \* cmdLineArgs.dumpConfig
    wDebug,             \* cmdLineArgs.debug
    wTargets,           \* len(targets)
    wSpawned,           \* doCollection goroutines started so far
    wRoutine,           \* per target: position of its doCollection goroutine
    wOk,                \* per target: collection.ok
    wCollections,       \* collections, in the order received
    wReportInput,       \* the collections whose files were given to the reporter
    wSteps,             \* the functions doWork has called, in order
    wErr                \* the error doWork returned ("" for nil)

workVars ==
    <<wPc, wCaller, wDumpConfig, wDebug, wTargets, wSpawned, wRoutine, wOk,
      wCollections, wReportInput, wSteps, wErr>>

vars == <<engineVars, functionVars, resolverVars, workVars>>

\* the orchestrator is not running
workOff ==
    /\ wPc = "off"
    /\ wCaller = ""
    /\ wDumpConfig = FALSE
    /\ wDebug = FALSE
    /\ wTargets = 0
    /\ wSpawned = 0
    /\ wRoutine = <<>>
    /\ wOk = <<>>
    /\ wCollections = <<>>
    /\ wReportInput = <<>>
    /\ wSteps = <<>>
    /\ wErr = ""

NoResult == [err |-> FALSE, type |-> "nil", f |-> NaN, b |-> FALSE]

\* no function call of its own is under way
functionsOff ==
    /\ fPc = "off"
    /\ fName = ""
    /\ fArgs = <<>>
    /\ fResult = NoResult

\* no resolver call of its own is under way
resolverOff ==
    /\ rPc = "off"
    /\ rInitial = NoVariables
    /\ rVariables = NoVariables
    /\ rGroups = <<>>
    /\ rRemaining = {}
    /\ rIterations = 0
    /\ rErr = FALSE

\* the definitions a run can be configured with
Inst == [Name |-> "inst", Expression |-> "instr", VariableNames |-> {"instr"}]
C6 == [Name |-> "c6", Expression |-> "[cstate_core/c6-residency/] / instr",
       VariableNames |-> {C6Residency, "instr"}]
Cmp == [Name |-> "cmp", Expression |-> "instr > [cstate_core/c6-residency/]",
        VariableNames |-> {"instr", C6Residency}]
Bad == [Name |-> "bad", Expression |-> "instr /", VariableNames |-> {"instr"}]
Peak == [Name |-> "peak", Expression |-> "max(instr, [cstate_core/c6-residency/])",
         VariableNames |-> {"instr", C6Residency}]
Low == [Name |-> "low", Expression |-> "min(instr)", VariableNames |-> {"instr"}]

\* a definition as loaded: every variable -1, no compiled expression
newMetricDefinition(m) ==
    [Name |-> m.Name, Expression |-> m.Expression,
     Variables |-> [v \in m.VariableNames |-> Unresolved],
     EvaluatorExpression |-> Nil]

DefinitionLists ==
    {<<>>, <<C6, Inst>>, <<Bad, Inst>>, <<Low, C6>>, <<Cmp, Inst>>, <<Inst, Peak>>}

\* The definition of the slice after one iteration of the loop: metricDef is
\* a copy of the element, so only what was written through the Variables map
\* reaches the slice; the copy's EvaluatorExpression is dropped with it.
sliceElementAfter(element, Variables, evaluated) ==
    [element EXCEPT !.Variables = Variables]

\* "err = nil; continue" after evaluateExpression failed: nothing is written
\* to the definition
continueAfterFault(element) == element

\* result.(float64)
isFloat64(result) == result.type = "float64"

\* the log lines printed while definition i is processed
logOf(i, lines) == [k \in 1..Len(lines) |-> [metric |-> i, line |-> lines[k]]]

\* the loop over metricDefinitions from index i on; st is the state so far
RECURSIVE processMetrics(_, _, _, _, _, _, _)
processMetrics(i, st, frame, prevTs, md, functions, verbose) ==
    IF i > Len(st.defs) THEN st
    ELSE
    LET metricDef == st.defs[i]
        gv == getExpressionVariables(metricDef, frame, prevTs, md, verbose)
        resolved == [metricDef EXCEPT !.Variables = gv.Variables]
        ev == evaluateExpression(resolved, gv.variables, functions)
        got == [st EXCEPT
                  !.defs[i] = sliceElementAfter(metricDef, gv.Variables, metricDef),
                  !.loadGroups[i] = gv.loadGroups,
                  !.resolverCalls[i] = @ + (IF gv.loadGroups THEN 1 ELSE 0),
                  !.log = @ \o logOf(i, gv.log)]
    IN IF gv.panic
       THEN [got EXCEPT !.outcome[i] = "panic: index out of range",
                        !.panicked = TRUE]
       ELSE IF gv.err
       THEN processMetrics(i + 1,
                [got EXCEPT !.err = FALSE,
                            !.outcome[i] = IF gv.loadGroups THEN "unresolved"
                                           ELSE "failed"],
                frame, prevTs, md, functions, verbose)
       ELSE
       LET after == [got EXCEPT
                       !.defs[i] = sliceElementAfter(metricDef, gv.Variables, ev.metric),
                       !.err = FALSE,
                       !.bindings[i] = gv.variables,
                       !.compileCount[i] = @ + (IF ev.created THEN 1 ELSE 0),
                       !.log = @ \o logOf(i, ev.log)]
       IN IF ev.err
          THEN processMetrics(i + 1,
                   [after EXCEPT !.defs[i] = continueAfterFault(@),
                                 !.outcome[i] = "fault",
                                 !.faulted[i] = TRUE],
                   frame, prevTs, md, functions, verbose)
          ELSE IF ~isFloat64(ev.result)
          THEN [after EXCEPT !.outcome[i] = "panic: interface conversion",
                             !.panicked = TRUE]
          ELSE processMetrics(i + 1,
                   [after EXCEPT
                       !.outcome[i] = "ok",
                       !.metrics = Append(@, [Name |-> metricDef.Name,
                                              Value |-> ev.result.f]),
                       !.log = @ \o logOf(i, IF verbose THEN <<LogMetric>> ELSE <<>>)],
                   frame, prevTs, md, functions, verbose)

Blank(n) == [i \in 1..n |-> "none"]
NotLoaded(n) == [i \in 1..n |-> FALSE]
NoBindings(n) == [i \in 1..n |-> NoVariables]

\* the body of processEvents on the current definitions; acquired is what
\* getEventFrame returned, verbose the value of gVerbose
runLoop(acquired, prevTs, functions, verbose) ==
    LET n == Len(metricDefinitions) IN
    processMetrics(1,
        [defs |-> metricDefinitions, metrics |-> <<>>, err |-> acquired.err,
         outcome |-> Blank(n), loadGroups |-> NotLoaded(n),
         bindings |-> NoBindings(n),
         compileCount |-> compileCount, panicked |-> FALSE,
         log |-> <<>>, resolverCalls |-> resolverCalls, faulted |-> faulted],
        acquired.frame, prevTs, metadata, functions, verbose)

\* one call of processEvents
processEvents(acquired, prevTs, functions) ==
    /\ pc = "idle"
    /\ \A i \in 1..Len(metricDefinitions) : compileCount[i] < MaxCompiles
    /\ \E st \in {runLoop(acquired, prevTs, functions, gVerbose)} :  \* the loop runs once
          /\ metricDefinitions' = st.defs
          /\ compileCount' = st.compileCount
          /\ resolverCalls' = st.resolverCalls
          /\ faulted' = st.faulted
          /\ logged' = st.log
          /\ eventFrame' = acquired.frame
          /\ frameErr' = acquired.err
          /\ previousTimestamp' = prevTs
          /\ outcome' = st.outcome
          /\ loadGroups' = st.loadGroups
          /\ bindings' = st.bindings
          /\ IF st.panicked
             THEN /\ pc' = "panicked"
                  /\ metrics' = <<>>
                  /\ timeStamp' = PosZero
                  /\ err' = FALSE
             ELSE /\ pc' = "returned"
                  /\ metrics' = st.metrics
                  /\ timeStamp' = acquired.frame.Timestamp
                  /\ err' = st.err
    /\ UNCHANGED <<metadata, gVerbose, functionVars, resolverVars, workVars>>

\* getEventFrame succeeds: any frame
ProcessFrame ==
    /\ pc = "idle"
    /\ \E groups \in GroupSeqs, ts \in Timestamps, prevTs \in Timestamps :
        processEvents([frame |-> [Timestamp |-> ts, EventGroups |-> groups],
                       err |-> FALSE],
                      prevTs, getEvaluatorFunctions)

\* getEventFrame fails: the frame is the zero value
ProcessBadFrame ==
    \E prevTs \in Timestamps :
        processEvents([frame |-> ZeroFrame, err |-> TRUE],
                      prevTs, getEvaluatorFunctions)

\* the sampling loop takes the result and waits for the next sample
NextSample ==
    /\ pc = "returned"
    /\ pc' = "idle"
    /\ eventFrame' = ZeroFrame
    /\ frameErr' = FALSE
    /\ previousTimestamp' = PosZero
    /\ metrics' = <<>>
    /\ timeStamp' = PosZero
    /\ err' = FALSE
    /\ outcome' = Blank(Len(metricDefinitions))
    /\ loadGroups' = NotLoaded(Len(metricDefinitions))
    /\ bindings' = NoBindings(Len(metricDefinitions))
    /\ logged' = <<>>
    /\ UNCHANGED <<metricDefinitions, metadata, compileCount, gVerbose,
                   resolverCalls, faulted>>
    /\ UNCHANGED <<functionVars, resolverVars, workVars>>

\* the engine before the first call of a run on definitions ds
engineStart(ds, threads, verbose) ==
    /\ metricDefinitions = [i \in DOMAIN ds |-> newMetricDefinition(ds[i])]
    /\ metadata = [ThreadsPerCore |-> threads]
    /\ gVerbose = verbose
    /\ pc = "idle"
    /\ eventFrame = ZeroFrame
    /\ frameErr = FALSE
    /\ previousTimestamp = PosZero
    /\ metrics = <<>>
    /\ timeStamp = PosZero
    /\ err = FALSE
    /\ outcome = Blank(Len(ds))
    /\ loadGroups = NotLoaded(Len(ds))
    /\ bindings = NoBindings(Len(ds))
    /\ compileCount = [i \in DOMAIN ds |-> 0]
    /\ logged = <<>>
    /\ resolverCalls = [i \in DOMAIN ds |-> 0]
    /\ faulted = [i \in DOMAIN ds |-> FALSE]

\* gVerbose is false unless the program is started with the verbose flag
Init ==
    /\ \E ds \in DefinitionLists, t \in 1..MaxThreadsPerCore :
          engineStart(ds, t, FALSE)
    /\ functionsOff
    /\ resolverOff
    /\ workOff

Next == ProcessFrame \/ ProcessBadFrame \/ NextSample

Spec == Init /\ [][Next]_vars

\* ================================================================== claims
hasFailed(def) == \E v \in DOMAIN def.Variables : def.Variables[v] = Failed
fullyResolved(def) == \A v \in DOMAIN def.Variables : def.Variables[v] >= 0
outputNames(ms) == {ms[k].Name : k \in 1..Len(ms)}
Definitions == DOMAIN metricDefinitions
called == pc # "idle"

\* the groups of frame that hold event name v (Go indices)
groupsWith(frame, v) ==
    {g \in 0..(Len(frame.EventGroups) - 1) : v \in DOMAIN frame.EventGroups[g + 1]}

\* C1: a definition with a Failed variable keeps every variable state through
\* every later step, whatever the frame, and is not in the returned list.
C1_PermanentFailure ==
    [][\A i \in Definitions :
          hasFailed(metricDefinitions[i]) =>
              /\ metricDefinitions'[i].Variables = metricDefinitions[i].Variables
              /\ metricDefinitions[i].Name \notin outputNames(metrics')]_vars

\* a later call skipped a failed definition on a frame that holds the event
C1_Witness ==
    /\ pc = "returned"
    /\ \E i \in Definitions :
          /\ outcome[i] = "failed"
          /\ \E v \in DOMAIN metricDefinitions[i].Variables :
                /\ metricDefinitions[i].Variables[v] = Failed
                /\ groupsWith(eventFrame, v) # {}

\* C2: a fully resolved definition keeps its group indices through every
\* step, and a variable state only moves from Unresolved to Failed or to a
\* group index.
C2_IdempotentCaching ==
    [][\A i \in Definitions :
          LET old == metricDefinitions[i].Variables
              new == metricDefinitions'[i].Variables
          IN /\ fullyResolved(metricDefinitions[i]) => new = old
             /\ \A v \in DOMAIN old :
                   \/ new[v] = old[v]
                   \/ old[v] = Unresolved /\ (new[v] = Failed \/ new[v] >= 0)]_vars

\* a definition resolved by an earlier call met a frame on which the resolver
\* would assign other groups (here: a frame with no group at its index)
C2_Witness ==
    /\ called
    /\ \E i \in Definitions :
          /\ fullyResolved(metricDefinitions[i])
          /\ ~loadGroups[i]
          /\ outcome[i] # "none"
          /\ loadMetricBestGroups(
                 [Variables |-> [v \in DOMAIN metricDefinitions[i].Variables |-> Unresolved]],
                 eventFrame).Variables # metricDefinitions[i].Variables

\* the number of names of remaining that group g (Go index) holds
overlap(groups, remaining, g) == Cardinality(remaining \cap DOMAIN groups[g + 1])

\* the lowest index among the groups of maximal overlap
lowestBest(groups, remaining) ==
    CHOOSE g \in 0..(Len(groups) - 1) :
        \A h \in 0..(Len(groups) - 1) :
            /\ overlap(groups, remaining, h) <= overlap(groups, remaining, g)
            /\ overlap(groups, remaining, h) = overlap(groups, remaining, g) => g <= h

\* the assignment the rule "lowest group of maximal non-zero overlap takes its
\* overlap, round after round" gives to the names of remaining
RECURSIVE greedyAssignment(_, _)
greedyAssignment(groups, remaining) ==
    IF \A g \in 0..(Len(groups) - 1) : overlap(groups, remaining, g) = 0
    THEN [v \in remaining |-> Failed]
    ELSE LET g == lowestBest(groups, remaining)
             matched == remaining \cap DOMAIN groups[g + 1]
             rest == greedyAssignment(groups, remaining \ matched)
         IN [v \in remaining |-> IF v \in matched THEN g ELSE rest[v]]

\* C3: whenever a call ran the resolver on a definition, the variable states
\* it left are the ones the tie-break rule determines from the frame and the
\* variable names alone.
C3_ResolutionDeterminism ==
    called =>
        \A i \in Definitions :
            loadGroups[i] =>
                metricDefinitions[i].Variables =
                    greedyAssignment(eventFrame.EventGroups,
                                     DOMAIN metricDefinitions[i].Variables)

\* the resolver ran on a frame whose first two groups tie and took the first
C3_Witness ==
    /\ pc = "returned"
    /\ Len(eventFrame.EventGroups) >= 2
    /\ \E i \in Definitions :
          LET names == DOMAIN metricDefinitions[i].Variables IN
          /\ loadGroups[i]
          /\ Cardinality(names) = 2
          /\ overlap(eventFrame.EventGroups, names, 0) = 1
          /\ overlap(eventFrame.EventGroups, names, 1) = 1
          /\ \E v \in names : metricDefinitions[i].Variables[v] = 0

\* frame.Timestamp - previousTimestamp of the last call, as an integer
interval == eventFrame.Timestamp[1] - previousTimestamp[1]

\* the bindings the normalizer gives definition i on the last call's frame
normalized(i) ==
    [v \in DOMAIN metricDefinitions[i].Variables |->
        normalizedValue(v, metricDefinitions[i].Variables[v], eventFrame,
                        previousTimestamp, metadata)]

\* resolution, normalization and evaluation of definition i all succeed on
\* the last call's frame
succeeds(i) ==
    /\ fullyResolved(metricDefinitions[i])
    /\ \A v \in DOMAIN metricDefinitions[i].Variables :
          indexInRange(metricDefinitions[i].Variables[v], eventFrame)
    /\ ~evaluateExpression(metricDefinitions[i], normalized(i),
                           getEvaluatorFunctions).err

\* one entry for each definition from i on that succeeds, in definition order
RECURSIVE expectedMetrics(_)
expectedMetrics(i) ==
    IF i > Len(metricDefinitions) THEN <<>>
    ELSE IF succeeds(i)
    THEN <<[Name |-> metricDefinitions[i].Name,
            Value |-> evaluateExpression(metricDefinitions[i], normalized(i),
                                         getEvaluatorFunctions).result.f]>>
         \o expectedMetrics(i + 1)
    ELSE expectedMetrics(i + 1)

\* C4: a call on an acquired frame returns, with a nil error and exactly one
\* entry, in definition order, for each definition that succeeds on the frame.
C4_FaultIsolation ==
    (called /\ ~frameErr) =>
        /\ pc = "returned"
        /\ ~err
        /\ metrics = expectedMetrics(1)

\* C5: a call whose frame acquisition failed returns a non-nil error and no
\* metric.
C5_FrameFailureIsFatal ==
    (called /\ frameErr) =>
        /\ pc = "returned"
        /\ err
        /\ metrics = <<>>

\* C6: on a zero or negative interval no definition is output and no
\* infinite or undefined value is bound to a variable.
C6_NonPositiveInterval ==
    (called /\ ~frameErr /\ interval <= 0) =>
        \A i \in Definitions :
            /\ outcome[i] # "ok"
            /\ metricDefinitions[i].Name \notin outputNames(metrics)
            /\ \A v \in DOMAIN bindings[i] : IsFinite(bindings[i][v])

\* C7: no formula is compiled more than once in a run.
C7_CompileOnce ==
    \A i \in Definitions : compileCount[i] <= 1

\* C8: on a positive interval the value bound to a variable is its raw value
\* in the assigned group (0 when the group lacks it) over the interval, times
\* ThreadsPerCore exactly for the core-residency name when ThreadsPerCore > 1.
C8_NormalizationResult ==
    (called /\ interval > 0) =>
        \A i \in Definitions :
            \A v \in DOMAIN bindings[i] :
                LET group == eventFrame.EventGroups[metricDefinitions[i].Variables[v] + 1]
                    raw == IF v \in DOMAIN group THEN group[v][1] ELSE 0
                    factor == IF metadata.ThreadsPerCore > 1
                                  /\ v = "cstate_core/c6-residency/"
                              THEN metadata.ThreadsPerCore ELSE 1
                    bound == bindings[i][v]
                IN /\ bound[2] > 0
                   /\ bound[1] * interval = raw * factor * bound[2]

\* with two threads per core and interval 1, residency 1 is bound as 2 and
\* the other variable of the same definition as its plain rate 1
C8_Witness ==
    /\ pc = "returned"
    /\ interval = 1
    /\ metadata.ThreadsPerCore = 2
    /\ \E i \in Definitions :
          /\ outcome[i] = "ok"
          /\ DOMAIN bindings[i] = {"instr", C6Residency}
          /\ bindings[i][C6Residency] = <<2, 1>>
          /\ bindings[i]["instr"] = <<1, 1>>

\* C9: no formula and no formula result ends the process, and after a
\* formula's fault the next definition is processed.
C9_FaultInterception ==
    \A i \in Definitions :
        /\ outcome[i] # "panic: interface conversion"
        /\ (outcome[i] = "fault" /\ i < Len(metricDefinitions)) => outcome[i + 1] # "none"

\* the frame of the last call supplies the raw value of variable v of
\* definition i at its assigned place
supplied(i, v) ==
    /\ indexInRange(metricDefinitions[i].Variables[v], eventFrame)
    /\ v \in DOMAIN eventFrame.EventGroups[metricDefinitions[i].Variables[v] + 1]

\* C10: when a definition resolved by an earlier call meets a frame that does
\* not supply a raw value at the assigned place, the call still returns,
\* having processed every definition, without that definition in its output.
C10_MissingRawValue ==
    \A i \in Definitions :
        ( /\ called
          /\ outcome[i] # "none"
          /\ ~loadGroups[i]
          /\ fullyResolved(metricDefinitions[i])
          /\ \E v \in DOMAIN metricDefinitions[i].Variables : ~supplied(i, v) ) =>
            /\ pc = "returned"
            /\ \A j \in Definitions : outcome[j] # "none"
            /\ metricDefinitions[i].Name \notin outputNames(metrics)

\* ----------------------------------------- the registered functions alone
\* numeric arguments: ints, and finite float64 values (both zeros included)
NumericArgs ==
    {IntArg(n) : n \in -MaxArg..MaxArg}
    \cup {FloatResult(NegZero)}
    \cup {FloatResult(IF n = 0 THEN PosZero ELSE Ratio(n, d)) :
             n \in -MaxArg..MaxArg, d \in 1..MaxDenominator}

InitFunctions ==
    /\ engineStart(<<>>, 1, FALSE)
    /\ resolverOff
    /\ workOff
    /\ fPc = "ready"
    /\ fName = ""
    /\ fArgs \in [1..2 -> NumericArgs]
    /\ fResult = NoResult

\* functions[name](fArgs...)
callRegistered(name) ==
    /\ fPc = "ready"
    /\ name \in getEvaluatorFunctions
    /\ fPc' = "done"
    /\ fName' = name
    /\ fResult' = callFunction(name, fArgs)
    /\ UNCHANGED <<fArgs, engineVars, resolverVars, workVars>>

CallMax == callRegistered("max")

CallMin == callRegistered("min")

NextFunctions == CallMax \/ CallMin

SpecFunctions == InitFunctions /\ [][NextFunctions]_vars

\* the rational number an argument or a finite float64 stands for, as
\* <<numerator, positive denominator>>
rational(x) == <<x[1], Abs(x[2])>>

argNumber(arg) == IF arg.type = "int" THEN <<arg.i, 1>> ELSE rational(arg.f)

atMost(x, y) == x[1] * y[2] <= y[1] * x[2]

sameNumber(x, y) == atMost(x, y) /\ atMost(y, x)

\* C11: for numeric (int or float64) arguments a and b, max(a, b) returns the
\* larger and min(a, b) the smaller of the two, as a float64, with no error.
C11_FunctionSemantics ==
    fPc = "done" =>
        /\ ~fResult.err
        /\ fResult.type = "float64"
        /\ IsFinite(fResult.f)
        /\ \E k \in 1..2 : sameNumber(rational(fResult.f), argNumber(fArgs[k]))
        /\ \A k \in 1..2 :
              IF fName = "max"
              THEN atMost(argNumber(fArgs[k]), rational(fResult.f))
              ELSE atMost(rational(fResult.f), argNumber(fArgs[k]))

\* max(3, 7) on two ints returned 7.0
C11_Witness ==
    /\ fPc = "done"
    /\ fName = "max"
    /\ fArgs = <<IntArg(3), IntArg(7)>>
    /\ fResult = FloatResult(FromInt(7))

\* min(3, 7) on two ints returned 3.0
C11_WitnessMin ==
    /\ fPc = "done"
    /\ fName = "min"
    /\ fArgs = <<IntArg(3), IntArg(7)>>
    /\ fResult = FloatResult(FromInt(3))

\* ------------------------------------------- runs with either gVerbose value
InitVerbose ==
    /\ \E ds \in DefinitionLists, verbose \in BOOLEAN : engineStart(ds, 1, verbose)
    /\ functionsOff
    /\ resolverOff
    /\ workOff

SpecVerbose == InitVerbose /\ [][Next]_vars

\* the call that has just been made, made with the toggle the other way
otherRun ==
    runLoop([frame |-> eventFrame', err |-> frameErr'], previousTimestamp',
            getEvaluatorFunctions, ~gVerbose)

logLines == {logged[k] : k \in 1..Len(logged)}

\* C12: a call made with gVerbose on and the same call made with it off, from
\* the same definitions on the same frame, give the same metric list, the same
\* timestamp and error (or both end in the same panic) and leave the same
\* resolution states; only the log differs.
C12_VerbosityNonInterference ==
    [][(pc = "idle" /\ pc' # "idle") =>
          \E other \in {otherRun} :
              /\ other.defs = metricDefinitions'
              /\ other.outcome = outcome'
              /\ other.bindings = bindings'
              /\ other.panicked = (pc' = "panicked")
              /\ ~other.panicked =>
                    /\ other.metrics = metrics'
                    /\ other.err = err'
                    /\ timeStamp' = eventFrame'.Timestamp]_vars

\* a verbose call returned after logging both a skipped failed definition and
\* a computed metric
C12_Witness ==
    /\ gVerbose
    /\ pc = "returned"
    /\ \E i \in DOMAIN outcome :
          /\ outcome[i] = "failed"
          /\ [metric |-> i, line |-> LogPreviouslyFailed] \in logLines
    /\ \E j \in DOMAIN outcome :
          /\ outcome[j] = "ok"
          /\ [metric |-> j, line |-> LogMetric] \in logLines
    /\ metrics # <<>>

\* C13: every call made on a successfully acquired frame returns, and returns
\* that frame's own timestamp, whatever happened to the definitions.
C13_ReturnedTimestamp ==
    (called /\ ~frameErr) =>
        /\ pc = "returned"
        /\ timeStamp = eventFrame.Timestamp

\* ------------------------------------------- loadMetricBestGroups alone
\* The loop of loadMetricBestGroups, one iteration per step, on any metric
\* (each variable in any state) and any frame.
ResolverNames == EventNames \cup {"cycles"}

MaxIterations == Cardinality(ResolverNames) + 2

VariableStates ==
    UNION {[names -> Failed..(MaxGroups - 1)] : names \in SUBSET ResolverNames}

ResolverGroups ==
    UNION {[1..n -> UNION {[names -> {FromInt(1)}] : names \in SUBSET ResolverNames}] :
             n \in 0..MaxGroups}

\* after lines 18-19: remainingVariableNames is every key of metric.Variables
InitResolver ==
    /\ engineStart(<<>>, 1, FALSE)
    /\ functionsOff
    /\ workOff
    /\ rPc = "loop"
    /\ rInitial \in VariableStates
    /\ rVariables = rInitial
    /\ rGroups \in ResolverGroups
    /\ rRemaining = DOMAIN rInitial
    /\ rIterations = 0
    /\ rErr = FALSE

bestGroup == scanGroups(rGroups, rRemaining, 0, NoBest)

\* lines 21-23: nothing remains
ResolverBreak ==
    /\ rPc = "loop"
    /\ rIterations < MaxIterations
    /\ rRemaining = {}
    /\ rPc' = "done"
    /\ rIterations' = rIterations + 1
    /\ UNCHANGED <<rInitial, rVariables, rGroups, rRemaining, rErr>>
    /\ UNCHANGED <<engineVars, functionVars, workVars>>

\* lines 40-46: no group matches a remaining name
ResolverFail ==
    /\ rPc = "loop"
    /\ rIterations < MaxIterations
    /\ rRemaining # {}
    /\ bestGroup.bestGroupIdx = -1
    /\ rVariables' = markFailed(rVariables, rRemaining)
    /\ rErr' = TRUE
    /\ rPc' = "done"
    /\ rIterations' = rIterations + 1
    /\ UNCHANGED <<rInitial, rGroups, rRemaining>>
    /\ UNCHANGED <<engineVars, functionVars, workVars>>

\* lines 47-51: the matched names take the best group and leave the set
ResolverAssign ==
    /\ rPc = "loop"
    /\ rIterations < MaxIterations
    /\ rRemaining # {}
    /\ bestGroup.bestGroupIdx # -1
    /\ rVariables' = assignGroup(rVariables, bestGroup.matchedNames,
                                 bestGroup.bestGroupIdx)
    /\ rRemaining' = rRemaining \ bestGroup.matchedNames
    /\ rIterations' = rIterations + 1
    /\ UNCHANGED <<rPc, rInitial, rGroups, rErr>>
    /\ UNCHANGED <<engineVars, functionVars, workVars>>

NextResolver == ResolverBreak \/ ResolverFail \/ ResolverAssign

SpecResolver == InitResolver /\ [][NextResolver]_vars

rNames == DOMAIN rVariables

inSomeGroup(v) == \E g \in 1..Len(rGroups) : v \in DOMAIN rGroups[g]

\* C14: when loadMetricBestGroups returns on a metric whose variables were all
\* Unresolved, no variable is Unresolved, the error is returned exactly when
\* some variable is Failed, the Failed variables are exactly those whose name
\* is in no group of the frame, and every other variable holds the index of a
\* group of the frame that contains its name.
C14_ResolverPostcondition ==
    (rPc = "done" /\ \A v \in rNames : rInitial[v] = Unresolved) =>
        /\ \A v \in rNames : rVariables[v] # Unresolved
        /\ rErr <=> \E v \in rNames : rVariables[v] = Failed
        /\ \A v \in rNames : rVariables[v] = Failed <=> ~inSomeGroup(v)
        /\ \A v \in rNames :
              rVariables[v] # Failed =>
                  /\ 0 <= rVariables[v]
                  /\ rVariables[v] < Len(rGroups)
                  /\ v \in DOMAIN rGroups[rVariables[v] + 1]

\* the call returned an error after a round that matched: one variable keeps
\* its group while another is Failed
C14_Witness ==
    /\ rPc = "done"
    /\ \A v \in rNames : rInitial[v] = Unresolved
    /\ rErr
    /\ \E v, w \in rNames : rVariables[v] = Failed /\ rVariables[w] >= 0

\* C15: loadMetricBestGroups never changes a variable that was Failed or
\* resolved to a group when it was called, and on a metric with no Unresolved
\* variable it returns at once without an error.
C15_OnlyUnresolved ==
    rPc = "done" =>
        /\ \A v \in rNames : rInitial[v] # Unresolved => rVariables[v] = rInitial[v]
        /\ (\A v \in rNames : rInitial[v] # Unresolved) => (~rErr /\ rIterations = 1)

\* C18: loadMetricBestGroups ends within as many iterations of its loop as the
\* metric has variables, plus one: every iteration that does not end the loop
\* takes at least one name out of the remaining set.
C18_ResolverTermination ==
    [][ /\ (rPc' = "loop" => (rRemaining' \subseteq rRemaining /\ rRemaining' # rRemaining))
        /\ rIterations' + Cardinality(rRemaining')
              <= Cardinality(rNames) + (IF rPc' = "done" THEN 1 ELSE 0) ]_vars

\* the bound is met: every round took one name, and the last iteration found
\* nothing left
C18_Witness ==
    /\ rPc = "done"
    /\ ~rErr
    /\ Cardinality(rNames) >= 2
    /\ rIterations = Cardinality(rNames) + 1

\* ------------------------------------------------ the engine, further claims
allUnresolved(def) == \A v \in DOMAIN def.Variables : def.Variables[v] = Unresolved
noneUnresolved(def) == \A v \in DOMAIN def.Variables : def.Variables[v] # Unresolved

\* C16: in every state reached by processEvents calls from fully Unresolved
\* definitions, the variables of a definition are all Unresolved or none is,
\* and loadMetricBestGroups has run at most once for it: not at all while
\* they are all Unresolved.
C16_ResolvedOnce ==
    \A i \in Definitions :
        /\ allUnresolved(metricDefinitions[i]) \/ noneUnresolved(metricDefinitions[i])
        /\ resolverCalls[i] <= 1
        /\ allUnresolved(metricDefinitions[i]) => resolverCalls[i] = 0

\* a later call processed a definition, resolved or failed by an earlier
\* call, without running the resolver
C16_Witness ==
    /\ pc = "returned"
    /\ \E i, j \in Definitions :
          /\ resolverCalls[i] = 1 /\ ~loadGroups[i] /\ outcome[i] = "ok"
          /\ resolverCalls[j] = 1 /\ ~loadGroups[j] /\ outcome[j] = "failed"

\* C17: a definition whose formula faults is skipped for that frame only: the
\* fault leaves its resolution state as the resolver gave it, and every later
\* call on an acquired frame normalizes and evaluates it again.
C17_TransientFaults ==
    [][\A i \in Definitions :
          (pc = "idle" /\ pc' # "idle") =>
              /\ outcome'[i] = "fault" =>
                    /\ fullyResolved(metricDefinitions'[i])
                    /\ noneUnresolved(metricDefinitions[i]) =>
                          metricDefinitions'[i].Variables = metricDefinitions[i].Variables
              /\ (faulted[i] /\ ~frameErr') =>
                    /\ outcome'[i] \in {"ok", "fault"}
                    /\ metricDefinitions'[i].Variables = metricDefinitions[i].Variables]_vars

logEntries(i) == {k \in 1..Len(logged) : logged[k].metric = i}

\* C19: with gVerbose on, the call in which the resolution of a definition
\* fails logs one entry for it, and a later call that skips it as failed logs
\* nothing for it and does not run the resolver.
C19_LoggedOnce ==
    (gVerbose /\ called) =>
        \A i \in Definitions :
            /\ outcome[i] = "unresolved" => Cardinality(logEntries(i)) = 1
            /\ outcome[i] = "failed" => (logEntries(i) = {} /\ ~loadGroups[i])

\* C20: a call whose frame acquisition failed leaves the resolution state of
\* every definition as it was.
C20_BadFrameKeepsResolution ==
    [][(pc = "idle" /\ pc' # "idle" /\ frameErr') =>
          \A i \in Definitions :
              metricDefinitions'[i].Variables = metricDefinitions[i].Variables]_vars

\* ------------------------------------------------ orchestrator: main.go
Targets == 1..wTargets

\* a receive loop that takes one collection only
receivesFirstOnly(targets) == IF targets > 0 THEN 1 ELSE 0

\* "for range targets": the number of receives of the second loop
receives(targets) == targets

\* getCollections, first loop: newCollection and "go doCollection(...)"
StartCollection ==
    /\ wPc = "getCollections"
    /\ wSpawned < wTargets
    /\ wSpawned' = wSpawned + 1
    /\ wRoutine' = [wRoutine EXCEPT ![wSpawned + 1] = "collect"]
    /\ UNCHANGED <<wPc, wCaller, wDumpConfig, wDebug, wTargets, wOk,
                   wCollections, wReportInput, wSteps, wErr>>
    /\ UNCHANGED <<engineVars, functionVars, resolverVars>>

\* doCollection up to the send: Collect returns, with or without an error
Collect ==
    /\ \E t \in Targets, ok \in BOOLEAN :
          /\ wRoutine[t] = "collect"
          /\ wOk' = [wOk EXCEPT ![t] = ok]
          /\ wRoutine' = [wRoutine EXCEPT ![t] = "send"]
    /\ UNCHANGED <<wPc, wCaller, wDumpConfig, wDebug, wTargets, wSpawned,
                   wCollections, wReportInput, wSteps, wErr>>
    /\ UNCHANGED <<engineVars, functionVars, resolverVars>>

\* "ch <- collection" meets "collection := <-ch": ch is unbuffered, so the
\* send and the receive are one step
Receive ==
    /\ wPc = "getCollections"
    /\ wSpawned = wTargets
    /\ Len(wCollections) < receives(wTargets)
    /\ \E t \in Targets :
          /\ wRoutine[t] = "send"
          /\ wRoutine' = [wRoutine EXCEPT ![t] = "done"]
          /\ wCollections' = Append(wCollections, t)
    /\ UNCHANGED <<wPc, wCaller, wDumpConfig, wDebug, wTargets, wSpawned, wOk,
                   wReportInput, wSteps, wErr>>
    /\ UNCHANGED <<engineVars, functionVars, resolverVars>>

\* getCollections returns (err is always nil)
ReturnCollections ==
    /\ wPc = "getCollections"
    /\ wSpawned = wTargets
    /\ Len(wCollections) = receives(wTargets)
    /\ wPc' = IF wCaller = "doWork" THEN "getReports" ELSE "returned"
    /\ UNCHANGED <<wCaller, wDumpConfig, wDebug, wTargets, wSpawned, wRoutine,
                   wOk, wCollections, wReportInput, wSteps, wErr>>
    /\ UNCHANGED <<engineVars, functionVars, resolverVars>>

\* getCollections called on any number of targets
InitCollections ==
    /\ engineStart(<<>>, 1, FALSE)
    /\ functionsOff
    /\ resolverOff
    /\ wPc = "getCollections"
    /\ wCaller = "direct"
    /\ wDumpConfig = FALSE
    /\ wDebug = FALSE
    /\ wTargets \in 0..MaxTargets
    /\ wSpawned = 0
    /\ wRoutine = [t \in Targets |-> "none"]
    /\ wOk = [t \in Targets |-> FALSE]
    /\ wCollections = <<>>
    /\ wReportInput = <<>>
    /\ wSteps = <<>>
    /\ wErr = ""

NextCollections == StartCollection \/ Collect \/ Receive \/ ReturnCollections

SpecCollections == InitCollections /\ [][NextCollections]_vars

\* scheduling: a goroutine that can run does run, the main goroutine too
FairCollections ==
    SpecCollections /\ WF_vars(StartCollection) /\ WF_vars(Collect)
                    /\ WF_vars(Receive) /\ WF_vars(ReturnCollections)

collectionsReturned == wPc \notin {"off", "doWork", "getCollections"}

\* C21: getCollections returns only when every doCollection goroutine has
\* finished Collect and handed over its collection; the list returned holds
\* each target's collection exactly once, no goroutine is left at the send,
\* and until it returns some goroutine can always take a step.
C21_FanIn ==
    /\ \A j, k \in 1..Len(wCollections) : wCollections[j] = wCollections[k] => j = k
    /\ collectionsReturned =>
          /\ {wCollections[k] : k \in 1..Len(wCollections)} = Targets
          /\ \A t \in Targets : wRoutine[t] = "done"
    /\ wPc = "getCollections" => ENABLED NextCollections

\* getCollections returned for three targets, with Collect having failed for
\* one and succeeded for another, received out of target order
C21_Witness ==
    /\ wPc = "returned"
    /\ wTargets = 3
    /\ Len(wCollections) = 3
    /\ wCollections[1] # 1
    /\ \E t, u \in Targets : wOk[t] /\ ~wOk[u]

\* ------------------------------------------------------------------ doWork
\* a doWork that cleans up whatever the debug flag says
runsCleanupAlways(debug) == TRUE

\* "if !cmdLineArgs.debug"
runsCleanup(debug) == ~debug

\* doWork has called fn, which returned error ("" for nil)
step(fn, error) == Append(wSteps, [fn |-> fn, err |-> error])

\* doWork returns error
returnWork(error) ==
    /\ wPc' = "returned"
    /\ wErr' = error

\* the collections with ok set, in the order of the list
okCollections == SelectSeq(wCollections, LAMBDA t : wOk[t])

\* lines 288-301: the configuration is printed and nothing else is done
DumpConfig ==
    /\ wPc = "doWork"
    /\ wDumpConfig
    /\ \E error \in {"", "customizeCommandYAML"} : returnWork(error)
    /\ UNCHANGED <<wCaller, wDumpConfig, wDebug, wTargets, wSpawned, wRoutine, wOk,
                   wCollections, wReportInput, wSteps>>
    /\ UNCHANGED <<engineVars, functionVars, resolverVars>>

\* lines 302-315: getTargets, then getCollections is called
GetTargets ==
    /\ wPc = "doWork"
    /\ ~wDumpConfig
    /\ \/ /\ returnWork("getTargets")
          /\ wSteps' = step("getTargets", "getTargets")
       \/ /\ wTargets = 0
          /\ returnWork("no targets provided")
          /\ wSteps' = step("getTargets", "")
       \/ /\ wTargets > 0
          /\ wPc' = "getCollections"
          /\ wSteps' = step("getTargets", "")
          /\ UNCHANGED wErr
    /\ UNCHANGED <<wCaller, wDumpConfig, wDebug, wTargets, wSpawned, wRoutine, wOk,
                   wCollections, wReportInput>>
    /\ UNCHANGED <<engineVars, functionVars, resolverVars>>

\* getReports: the reporter is run on the files of the ok collections
GetReports ==
    /\ wPc = "getReports"
    /\ IF Len(okCollections) = 0
       THEN /\ returnWork("no data collected")
            /\ wSteps' = step("getReports", "no data collected")
            /\ UNCHANGED wReportInput
       ELSE \/ /\ returnWork("getBinPath")
               /\ wSteps' = step("getReports", "getBinPath")
               /\ UNCHANGED wReportInput
            \/ /\ returnWork("reporter")
               /\ wSteps' = step("getReports", "reporter")
               /\ wReportInput' = okCollections
            \/ /\ wPc' = "archiveOutputDir"
               /\ wSteps' = step("getReports", "")
               /\ wReportInput' = okCollections
               /\ UNCHANGED wErr
    /\ UNCHANGED <<wCaller, wDumpConfig, wDebug, wTargets, wSpawned, wRoutine, wOk,
                   wCollections>>
    /\ UNCHANGED <<engineVars, functionVars, resolverVars>>

\* archiveOutputDir, then the test of the debug flag
ArchiveOutputDir ==
    /\ wPc = "archiveOutputDir"
    /\ \/ /\ returnWork("archiveOutputDir")
          /\ wSteps' = step("archiveOutputDir", "archiveOutputDir")
       \/ /\ wPc' = IF runsCleanup(wDebug) THEN "cleanupOutputDir" ELSE "print"
          /\ wSteps' = step("archiveOutputDir", "")
          /\ UNCHANGED wErr
    /\ UNCHANGED <<wCaller, wDumpConfig, wDebug, wTargets, wSpawned, wRoutine, wOk,
                   wCollections, wReportInput>>
    /\ UNCHANGED <<engineVars, functionVars, resolverVars>>

\* cleanupOutputDir: its err is never set
CleanupOutputDir ==
    /\ wPc = "cleanupOutputDir"
    /\ wPc' = "print"
    /\ wSteps' = step("cleanupOutputDir", "")
    /\ UNCHANGED <<wCaller, wDumpConfig, wDebug, wTargets, wSpawned, wRoutine, wOk,
                   wCollections, wReportInput, wErr>>
    /\ UNCHANGED <<engineVars, functionVars, resolverVars>>

\* lines 334-343: the report paths are printed
PrintReports ==
    /\ wPc = "print"
    /\ \E error \in {"", "filepath.Rel"} : returnWork(error)
    /\ UNCHANGED <<wCaller, wDumpConfig, wDebug, wTargets, wSpawned, wRoutine, wOk,
                   wCollections, wReportInput, wSteps>>
    /\ UNCHANGED <<engineVars, functionVars, resolverVars>>

\* doWork called with any flags; wTargets is what getTargets will give
InitWork ==
    /\ engineStart(<<>>, 1, FALSE)
    /\ functionsOff
    /\ resolverOff
    /\ wPc = "doWork"
    /\ wCaller = "doWork"
    /\ wDumpConfig \in BOOLEAN
    /\ wDebug \in BOOLEAN
    /\ wTargets \in 0..MaxTargets
    /\ wSpawned = 0
    /\ wRoutine = [t \in Targets |-> "none"]
    /\ wOk = [t \in Targets |-> FALSE]
    /\ wCollections = <<>>
    /\ wReportInput = <<>>
    /\ wSteps = <<>>
    /\ wErr = ""

NextWork ==
    \/ DumpConfig
    \/ GetTargets
    \/ StartCollection
    \/ Collect
    \/ Receive
    \/ ReturnCollections
    \/ GetReports
    \/ ArchiveOutputDir
    \/ CleanupOutputDir
    \/ PrintReports

SpecWork == InitWork /\ [][NextWork]_vars

ran(fn) == \E k \in 1..Len(wSteps) : wSteps[k].fn = fn

\* fn was called and returned nil before step k
succeededBefore(fn, k) ==
    \E j \in 1..(k - 1) : wSteps[j].fn = fn /\ wSteps[j].err = ""

\* C22: the reporter is given the collections with ok = true and no other;
\* when no collection is ok, getReports fails with "no data collected", doWork
\* returns that error and neither archiveOutputDir nor cleanupOutputDir runs;
\* cleanupOutputDir runs only after getReports and then archiveOutputDir have
\* returned nil, and never when the debug flag is set.
C22_RunOrder ==
    /\ \A k \in 1..Len(wReportInput) : wOk[wReportInput[k]]
    /\ wReportInput \in {<<>>, okCollections}
    /\ (ran("getReports") /\ \A t \in Targets : ~wOk[t]) =>
          /\ wPc = "returned"
          /\ wErr = "no data collected"
          /\ wReportInput = <<>>
          /\ ~ran("archiveOutputDir")
          /\ ~ran("cleanupOutputDir")
    /\ \A k \in 1..Len(wSteps) :
          /\ wSteps[k].fn = "archiveOutputDir" => succeededBefore("getReports", k)
          /\ wSteps[k].fn = "cleanupOutputDir" =>
                /\ ~wDebug
                /\ succeededBefore("archiveOutputDir", k)
                /\ succeededBefore("getReports", k)

\* a run without the debug flag cleaned up after reports were made of some
\* but not all collections
C22_Witness ==
    /\ wPc = "returned"
    /\ wErr = ""
    /\ ~wDebug
    /\ ran("cleanupOutputDir")
    /\ wReportInput # <<>>
    /\ \E t \in Targets : ~wOk[t]

\* a run in which no collection was ok ended with "no data collected"
C22_WitnessNoData ==
    /\ wPc = "returned"
    /\ wErr = "no data collected"
    /\ wTargets > 1

\* a run with the debug flag set finished without cleaning up
C22_WitnessDebug ==
    /\ wPc = "returned"
    /\ wErr = ""
    /\ wDebug
    /\ ran("archiveOutputDir")
    /\ ~ran("cleanupOutputDir")
====
